---- MODULE Spec2Model ----
(***************************************************************************)
(* Model of screensaver.py: the argument/video-list resolver               *)
(* (parse_arguments), the temporary config directory                       *)
(* (create_temp_config_dir, adjust_mpv_conf) and the process lifecycle of  *)
(* main(): spawn one mpv per display, poll until one exits or the user     *)
(* interrupts, terminate and wait for all, remove the config directory.    *)
(*                                                                         *)
(* The mpv children, the filesystem and the terminal user (Ctrl-C) are the *)
(* environment.  A subprocess.Popen handle is modelled by what the         *)
(* standard library does: poll() records the return code of a child that   *)
(* has exited, terminate() signals only a child whose return code is not   *)
(* yet known, wait() blocks until the child has exited.                    *)
(***************************************************************************)
EXTENDS Integers, Sequences, FiniteSets, TLC

\* ---------------------------------------------------------------- bounds
MaxArgs == 4          \* longest CLI video list explored by ParseSpec
MaxRunArgs == 2       \* longest CLI video list explored by Spec
MaxFallback == 2      \* longest VIDEO_PATH explored by ParseSpec
MaxRunFallback == 0   \* longest VIDEO_PATH explored by Spec ([] as shipped)
MaxDisplays == 2      \* longest DISPLAYS explored
MaxVideoCount == 60   \* largest video count given to adjust_mpv_conf by ConfSpec

\* the paths a user may name; which of them exist is chosen in Init
Paths == {"a.mp4", "x.mp4"}

DisplayIds == 0 .. (MaxDisplays - 1)

VARIABLES
    DISPLAYS,            \* config: screens to show video on
    VIDEO_PATH,          \* config: fallback video list
    exists,              \* filesystem: the set of paths that exist
    argv_videos,         \* args.videos
    dry_run,             \* args.dry_run
    pc,                  \* position of main()
    video_list,          \* working list inside parse_arguments
    fi,                  \* index of `for file in video_list`
    valid_videos,        \* parse_arguments' result list; main's video_list
    notifications_sent,  \* parse_arguments' counter
    notifications,       \* notify-send invocations so far, in order
    stdout,              \* what has been printed so far, in order
    count_arg,           \* the video_count passed to create_temp_config_dir
    adjusted_conf,       \* create_temp_config_dir's local: the adjusted mpv.conf
    config_dir,          \* main's local: "unset" or "set"
    dir_exists,          \* filesystem: the temporary directory exists
    dir_files,           \* filesystem: file name -> content, of the directory
    dir_created,         \* history: mkdtemp has succeeded in this run
    processes,           \* main's list of Popen handles (display ids)
    i,                   \* index of the for loop main() is in
    child,               \* per display: "unborn", "running", "exited"
    returncode,          \* per display: the handle knows the child's status
    sigterm,             \* per display: SIGTERM has been delivered
    term_calls,          \* history: handles on which terminate() was called
    waited,              \* history: per display, completed wait() calls
    launched,            \* history: the command lines given to Popen
    spawn_failed,        \* history: displays whose Popen raised
    exit_cause,          \* how the monitoring loop ended
    uncaught             \* the exception that left main(), or "none"

vars == << DISPLAYS, VIDEO_PATH, exists, argv_videos, dry_run, pc, video_list,
           fi, valid_videos, notifications_sent, notifications, config_dir,
           dir_exists, dir_files, dir_created, processes, i, child,
           returncode, sigterm, term_calls, waited, launched, spawn_failed,
           exit_cause, uncaught, stdout, count_arg, adjusted_conf >>

cfgVars   == << DISPLAYS, VIDEO_PATH, exists, argv_videos, dry_run >>
parseVars == << video_list, fi, valid_videos, notifications_sent >>
dirVars   == << config_dir, dir_exists, dir_files, dir_created, count_arg,
                adjusted_conf >>
procVars  == << processes, child, returncode, sigterm, term_calls, waited,
                launched, spawn_failed >>

\* ------------------------------------------------------------- utilities
SeqsUpTo(S, n) == UNION { [1 .. k -> S] : k \in 0 .. n }

Prefix(n) == [k \in 1 .. n |-> k - 1]

Reverse(s) == [k \in 1 .. Len(s) |-> s[Len(s) + 1 - k]]

\* the DISPLAYS settings explored: [], [0], [0, 1], ... and [1, 0], ...
DisplayConfigs ==
    { Prefix(n) : n \in 0 .. MaxDisplays } \cup
    { Reverse(Prefix(n)) : n \in 0 .. MaxDisplays }

Min(a, b) == IF a < b THEN a ELSE b

Range(s) == { s[k] : k \in DOMAIN s }

\* ------------------------------------------------- configuration section
MPV_CONF ==
    << "hwdec=no", "loop-playlist=inf", "image-display-duration=7", "ao=null",
       "fullscreen=yes", "ontop", "osc=no", "osd-level=0", "vo=gpu-next",
       "input-default-bindings=no", "cursor-autohide=always",
       "title=\"MPVScreensaver\"", "stop-screensaver=no" >>

INPUT_CONF ==
    << "MOUSE_MOVE ignore", "MOUSE_ENTER ignore", "MOUSE_LEAVE ignore",
       "MBTN_LEFT quit", "MBTN_RIGHT quit", "UNMAPPED keybind UNMAPPED quit" >>

\* str.replace on the directive lines: no other line contains the old text
Replace(conf, old, new) ==
    [k \in DOMAIN conf |-> IF conf[k] = old THEN new ELSE conf[k]]

adjust_mpv_conf_at_most_one(video_count) ==
    IF video_count <= 1
    THEN Replace(MPV_CONF, "loop-playlist=inf", "loop=inf")
    ELSE MPV_CONF

adjust_mpv_conf(video_count) ==
    IF video_count = 1
    THEN Replace(MPV_CONF, "loop-playlist=inf", "loop=inf")
    ELSE MPV_CONF

\* ---------------------------------------------------------- notification
Urgency(urgent) == IF urgent THEN "critical" ELSE "normal"

send_notification(message, urgent) ==
    [app |-> "MPVScreensaver", urgency |-> Urgency(urgent), message |-> message]

FileNotFound(file) == << "File not found: ", file >>

NoVideosMessage == << "No videos to play" >>

\* ------------------------------------------------------------------ Init
InitRun ==
    /\ pc = "start"
    /\ video_list = << >>
    /\ fi = 1
    /\ valid_videos = << >>
    /\ notifications_sent = 0
    /\ notifications = << >>
    /\ stdout = << >>
    /\ adjusted_conf = << >>
    /\ config_dir = "unset"
    /\ dir_exists = FALSE
    /\ dir_files = << >>
    /\ dir_created = FALSE
    /\ processes = << >>
    /\ i = 1
    /\ child = [d \in DisplayIds |-> "unborn"]
    /\ returncode = [d \in DisplayIds |-> FALSE]
    /\ sigterm = [d \in DisplayIds |-> FALSE]
    /\ term_calls = << >>
    /\ waited = [d \in DisplayIds |-> 0]
    /\ launched = << >>
    /\ spawn_failed = {}
    /\ exit_cause = "none"
    /\ uncaught = "none"

Init ==
    /\ DISPLAYS \in DisplayConfigs
    /\ VIDEO_PATH \in SeqsUpTo(Paths, MaxRunFallback)
    /\ exists \in SUBSET Paths
    /\ argv_videos \in SeqsUpTo(Paths, MaxRunArgs)
    /\ dry_run \in BOOLEAN
    /\ count_arg = 0
    /\ InitRun

InitParse ==
    /\ DISPLAYS = << 0 >>
    /\ VIDEO_PATH \in SeqsUpTo(Paths, MaxFallback)
    /\ exists \in SUBSET Paths
    /\ argv_videos \in SeqsUpTo(Paths, MaxArgs)
    /\ dry_run \in BOOLEAN
    /\ count_arg = 0
    /\ InitRun

InitConf ==
    /\ DISPLAYS = << 0 >>
    /\ VIDEO_PATH = << >>
    /\ exists = {}
    /\ argv_videos = << >>
    /\ dry_run = FALSE
    /\ count_arg \in 0 .. MaxVideoCount
    /\ InitRun

\* ------------------------------------------------------- adjust_mpv_conf
\* a direct call adjust_mpv_conf(n), as the tests make it
AdjustMpvConf ==
    /\ pc = "start"
    /\ adjusted_conf' = adjust_mpv_conf(count_arg)
    /\ pc' = "adjusted"
    /\ UNCHANGED << cfgVars, stdout, parseVars, notifications, config_dir,
                    dir_exists, dir_files, dir_created, count_arg, procVars, i,
                    exit_cause, uncaught >>

NextConf == AdjustMpvConf

ConfSpec == InitConf /\ [][NextConf]_vars

\* ------------------------------------------------------- parse_arguments
WorkingListMixed(videos, fallback) == videos \o fallback

WorkingList(videos, fallback) == IF videos # << >> THEN videos ELSE fallback

path_exists(file) == file \in exists

BudgetOpenOffByOne(sent) == sent <= 3

BudgetOpen(sent) == sent < 3

KeepUnique(valid, file) ==
    IF file \in Range(valid) THEN valid ELSE Append(valid, file)

\* valid_videos.append(file)
Keep(valid, file) == Append(valid, file)

\* argparse, then the choice of the list to filter
ParseBegin ==
    /\ pc = "start"
    /\ video_list' = WorkingList(argv_videos, VIDEO_PATH)
    /\ valid_videos' = << >>
    /\ notifications_sent' = 0
    /\ fi' = 1
    /\ pc' = "parse_loop"
    /\ UNCHANGED << cfgVars, stdout, notifications, dirVars, procVars, i, exit_cause,
                    uncaught >>

\* one iteration of `for file in video_list`
ParseStep ==
    /\ pc = "parse_loop"
    /\ fi <= Len(video_list)
    /\ LET file == video_list[fi] IN
         IF path_exists(file)
         THEN /\ valid_videos' = Keep(valid_videos, file)
              /\ UNCHANGED << notifications, notifications_sent >>
         ELSE IF BudgetOpen(notifications_sent)
              THEN /\ notifications' =
                         Append(notifications,
                                send_notification(FileNotFound(file), FALSE))
                   /\ notifications_sent' = notifications_sent + 1
                   /\ UNCHANGED valid_videos
              ELSE UNCHANGED << valid_videos, notifications,
                                notifications_sent >>
    /\ fi' = fi + 1
    /\ UNCHANGED << cfgVars, stdout, pc, video_list, dirVars, procVars, i, exit_cause,
                    uncaught >>

\* `return args, valid_videos`: main binds the result to its video_list
ParseReturn ==
    /\ pc = "parse_loop"
    /\ fi > Len(video_list)
    /\ pc' = "parsed"
    /\ UNCHANGED << cfgVars, stdout, parseVars, notifications, dirVars, procVars, i,
                    exit_cause, uncaught >>

NextParse == ParseBegin \/ ParseStep \/ ParseReturn

ParseSpec == InitParse /\ [][NextParse]_vars

\* ------------------------------------------------------------------ main
NoVideosToPlayArgs(list) == argv_videos = << >>

\* `if not video_list:`
NoVideosToPlay(list) == list = << >>

\* one urgent notification, then return
NoVideos ==
    /\ pc = "parsed"
    /\ NoVideosToPlay(valid_videos)
    /\ notifications' =
           Append(notifications, send_notification(NoVideosMessage, TRUE))
    /\ stdout' = Append(stdout, [kind |-> "no_videos"])
    /\ pc' = "done"
    /\ UNCHANGED << cfgVars, parseVars, dirVars, procVars, i, exit_cause,
                    uncaught >>

ConfigFilesMpvOnly(video_count) ==
    [name \in {"mpv.conf"} |-> adjust_mpv_conf(video_count)]

\* the two documents create_temp_config_dir writes
ConfigFiles(video_count) ==
    [name \in {"mpv.conf", "input.conf"} |->
        IF name = "mpv.conf" THEN adjust_mpv_conf(video_count) ELSE INPUT_CONF]

\* create_temp_config_dir returns; main enters the launch loop
CreateTempConfigDir ==
    /\ pc = "parsed"
    /\ ~NoVideosToPlay(valid_videos)
    /\ dir_exists' = TRUE
    /\ dir_created' = TRUE
    /\ count_arg' = Len(valid_videos)
    /\ adjusted_conf' = adjust_mpv_conf(count_arg')
    /\ dir_files' = ConfigFiles(count_arg')
    /\ config_dir' = "set"
    /\ stdout' = Append(stdout, [kind |-> "config_dir", dir |-> "mpvconfig_"])
    /\ processes' = << >>
    /\ i' = 1
    /\ pc' = "spawn"
    /\ UNCHANGED << cfgVars, parseVars, notifications, child, returncode,
                    sigterm, term_calls, waited, launched, spawn_failed,
                    exit_cause, uncaught >>

\* mkdtemp or write_text raises OSError: create_temp_config_dir does not
\* return, the exception leaves main()
CreateTempConfigDirFail ==
    /\ pc = "parsed"
    /\ ~NoVideosToPlay(valid_videos)
    /\ count_arg' = Len(valid_videos)
    /\ \/ UNCHANGED << dir_exists, dir_created, dir_files, adjusted_conf >>
       \/ /\ dir_exists' = TRUE
          /\ dir_created' = TRUE
          /\ adjusted_conf' = adjust_mpv_conf(count_arg')
          /\ dir_files' \in { << >>,
                 [name \in {"mpv.conf"} |-> adjusted_conf'] }
    /\ pc' = "failed"
    /\ uncaught' = "OSError"
    /\ UNCHANGED << cfgVars, stdout, parseVars, notifications, config_dir,
                    procVars, i, exit_cause >>

CmdFirstDisplay(display) ==
    [config_dir |-> "mpvconfig_", fs_screen |-> DISPLAYS[1],
     videos |-> valid_videos]

\* the argument list given to Popen
Cmd(display) ==
    [config_dir |-> "mpvconfig_", fs_screen |-> display, videos |-> valid_videos]

ShouldLaunchAlways(dry) == TRUE

\* `if args.dry_run:` ... `else:` the branch that calls Popen
ShouldLaunch(dry) == ~dry

AfterLaunchNoTeardown(procs) == "rmtree"

AfterLaunchAlwaysPoll(procs) == "poll"

\* where main() goes when `for i, display in enumerate(DISPLAYS)` is over
AfterLaunch(procs) == IF procs # << >> THEN "poll" ELSE "rmtree"

\* one iteration of the launch loop with --dry-run: only prints
SpawnDry ==
    /\ pc = "spawn"
    /\ i <= Len(DISPLAYS)
    /\ ~ShouldLaunch(dry_run)
    /\ stdout' = stdout \o
           << [kind |-> "would_launch", display |-> DISPLAYS[i],
               videos |-> Len(valid_videos)],
              [kind |-> "command", cmd |-> Cmd(DISPLAYS[i])] >>
    /\ i' = i + 1
    /\ UNCHANGED << cfgVars, parseVars, notifications, dirVars, procVars, pc,
                    exit_cause, uncaught >>

\* one iteration of the launch loop: Popen succeeds
Spawn ==
    /\ pc = "spawn"
    /\ i <= Len(DISPLAYS)
    /\ ShouldLaunch(dry_run)
    /\ LET display == DISPLAYS[i] IN
         /\ child' = [child EXCEPT ![display] = "running"]
         /\ processes' = Append(processes, display)
         /\ launched' = Append(launched, Cmd(display))
         /\ stdout' = Append(stdout, [kind |-> "launched", display |-> display,
                                      videos |-> Len(valid_videos)])
    /\ i' = i + 1
    /\ UNCHANGED << cfgVars, parseVars, notifications, dirVars, returncode,
                    sigterm, term_calls, waited, spawn_failed, pc, exit_cause,
                    uncaught >>

\* one iteration of the launch loop: Popen raises OSError (mpv missing,
\* fork failure); nothing in main() catches it
SpawnFail ==
    /\ pc = "spawn"
    /\ i <= Len(DISPLAYS)
    /\ ShouldLaunch(dry_run)
    /\ spawn_failed' = spawn_failed \cup {DISPLAYS[i]}
    /\ pc' = "failed"
    /\ uncaught' = "OSError"
    /\ UNCHANGED << cfgVars, stdout, parseVars, notifications, dirVars, processes, i,
                    child, returncode, sigterm, term_calls, waited, launched,
                    exit_cause >>

\* the launch loop is over: `if processes:`
SpawnDone ==
    /\ pc = "spawn"
    /\ i > Len(DISPLAYS)
    /\ pc' = AfterLaunch(processes)
    /\ i' = 1
    /\ UNCHANGED << cfgVars, stdout, parseVars, notifications, dirVars, procVars,
                    exit_cause, uncaught >>

PollAlwaysExited(rc, proc) == [rc EXCEPT ![proc] = TRUE]

\* Popen.poll(): learns the status of a child that has exited
Poll(rc, proc) == [rc EXCEPT ![proc] = rc[proc] \/ child[proc] = "exited"]

\* one iteration of `for proc in processes` inside `while True`
MonitorPoll ==
    /\ pc = "poll"
    /\ i <= Len(processes)
    /\ LET proc == processes[i] IN
         /\ returncode' = Poll(returncode, proc)
         /\ IF returncode'[proc]
            THEN /\ pc' = "terminate"      \* raise StopIteration, finally
                 /\ i' = 1
                 /\ exit_cause' = "finished"
            ELSE /\ pc' = IF i = Len(processes) THEN "sleep" ELSE "poll"
                 /\ i' = i + 1
                 /\ UNCHANGED exit_cause
    /\ UNCHANGED << cfgVars, stdout, parseVars, notifications, dirVars, processes,
                    child, sigterm, term_calls, waited, launched, spawn_failed,
                    uncaught >>

\* time.sleep(0.1) returns
Sleep ==
    /\ pc = "sleep"
    /\ pc' = "poll"
    /\ i' = 1
    /\ UNCHANGED << cfgVars, stdout, parseVars, notifications, dirVars, procVars,
                    exit_cause, uncaught >>

InTryPollOnly(p) == p = "poll"

\* the positions of main() covered by `try:` ... `except KeyboardInterrupt:`
InTry(p) == p \in {"poll", "sleep"}

\* the user presses Ctrl-C: KeyboardInterrupt is raised in main()
Interrupt ==
    /\ pc \notin {"done", "failed"}
    /\ IF InTry(pc)
       THEN /\ pc' = "terminate"           \* except KeyboardInterrupt, finally
            /\ i' = 1
            /\ exit_cause' = "interrupted"
            /\ stdout' = Append(stdout, [kind |-> "interrupted"])
            /\ UNCHANGED uncaught
       ELSE /\ pc' = "failed"
            /\ uncaught' = "KeyboardInterrupt"
            /\ UNCHANGED << i, exit_cause, stdout >>
    /\ UNCHANGED << cfgVars, parseVars, notifications, dirVars, procVars >>

StillRunningInverted(rc, proc) == rc[proc]

StillRunningAlways(rc, proc) == TRUE

\* `proc.poll() is None`
StillRunning(rc, proc) == ~rc[proc]

\* finally: `if proc.poll() is None:` for one proc of the first loop
TeardownPoll ==
    /\ pc = "terminate"
    /\ i <= Len(processes)
    /\ LET proc == processes[i] IN
         /\ returncode' = Poll(returncode, proc)
         /\ IF StillRunning(returncode', proc)
            THEN /\ pc' = "send_term"
                 /\ UNCHANGED i
            ELSE /\ pc' = IF i = Len(processes) THEN "wait" ELSE "terminate"
                 /\ i' = IF i = Len(processes) THEN 1 ELSE i + 1
    /\ UNCHANGED << cfgVars, stdout, parseVars, notifications, dirVars, processes,
                    child, sigterm, term_calls, waited, launched, spawn_failed,
                    exit_cause, uncaught >>

\* finally: `proc.terminate()`; Popen polls again and signals a live child
Terminate ==
    /\ pc = "send_term"
    /\ LET proc == processes[i] IN
         /\ returncode' = Poll(returncode, proc)
         /\ sigterm' = [sigterm EXCEPT ![proc] = sigterm[proc] \/ ~returncode'[proc]]
         /\ term_calls' = Append(term_calls, proc)
    /\ pc' = IF i = Len(processes) THEN "wait" ELSE "terminate"
    /\ i' = IF i = Len(processes) THEN 1 ELSE i + 1
    /\ UNCHANGED << cfgVars, stdout, parseVars, notifications, dirVars, processes,
                    child, waited, launched, spawn_failed, exit_cause,
                    uncaught >>

\* finally: `proc.wait()` returns for one proc of the second loop
Wait ==
    /\ pc = "wait"
    /\ i <= Len(processes)
    /\ LET proc == processes[i] IN
         /\ child[proc] = "exited"
         /\ returncode' = [returncode EXCEPT ![proc] = TRUE]
         /\ waited' = [waited EXCEPT ![proc] = waited[proc] + 1]
    /\ pc' = IF i = Len(processes) THEN "rmtree" ELSE "wait"
    /\ i' = IF i = Len(processes) THEN 1 ELSE i + 1
    /\ UNCHANGED << cfgVars, stdout, parseVars, notifications, dirVars, processes,
                    child, sigterm, term_calls, launched, spawn_failed,
                    exit_cause, uncaught >>

\* shutil.rmtree(config_dir), then main() returns
Rmtree ==
    /\ pc = "rmtree"
    /\ dir_exists' = FALSE
    /\ dir_files' = << >>
    /\ pc' = "done"
    /\ UNCHANGED << cfgVars, stdout, parseVars, notifications, config_dir,
                    dir_created, count_arg, adjusted_conf,
                    procVars, i, exit_cause, uncaught >>

\* -------------------------------------------------------------- children
\* an mpv process ends: playlist over, key pressed, or SIGTERM received
ChildExit(d) ==
    /\ child[d] = "running"
    /\ child' = [child EXCEPT ![d] = "exited"]
    /\ UNCHANGED << cfgVars, stdout, parseVars, notifications, dirVars, processes,
                    returncode, sigterm, term_calls, waited, launched,
                    spawn_failed, pc, i, exit_cause, uncaught >>

\* --------------------------------------------------------- specification
MainNext ==
    \/ ParseBegin
    \/ ParseStep
    \/ ParseReturn
    \/ NoVideos
    \/ CreateTempConfigDir
    \/ SpawnDry
    \/ Spawn
    \/ SpawnDone
    \/ MonitorPoll
    \/ Sleep
    \/ TeardownPoll
    \/ Terminate
    \/ Wait
    \/ Rmtree

Next ==
    \/ MainNext
    \/ CreateTempConfigDirFail
    \/ SpawnFail
    \/ Interrupt
    \/ \E d \in DisplayIds : ChildExit(d)

Spec == Init /\ [][Next]_vars

\* main() keeps running while it can; a child that got SIGTERM exits
FairSpec ==
    /\ Spec
    /\ WF_vars(MainNext)
    /\ \A d \in DisplayIds : WF_vars(sigterm[d] /\ ChildExit(d))

\* ================================================================ claims
Terminated == pc \in {"done", "failed"}

Spawned == Range(processes)

Reaped(p) == waited[p] >= 1

Missing(list) == SelectSeq(list, LAMBDA f : f \notin exists)

Existing(list) == SelectSeq(list, LAMBDA f : f \in exists)

\* a Ctrl-C outside the monitoring loop has cut the run short
CutShort == uncaught = "KeyboardInterrupt"

\* C1: whenever main() has returned or propagated a failure after
\* create_temp_config_dir succeeded, the config directory no longer exists.
\* Stated for the runs not cut short by a Ctrl-C outside the monitoring loop
\* (first child exited, interrupt in the loop, failure of a spawn); such a
\* Ctrl-C leaves the directory behind as well.
C1_DirRemovedOnEveryExit ==
    (Terminated /\ config_dir = "set" /\ ~CutShort) => ~dir_exists

\* the teardown that follows a loop exit of the given cause: no handle known
\* to have exited is still being polled in the loop, every child that the wait
\* phase blocks on has exited or has been signalled, and the directory is
\* removed only after every spawned child was waited on and seen exited
TeardownAfter(cause) ==
    exit_cause = cause =>
      /\ pc \in {"terminate", "send_term", "wait", "rmtree", "done", "failed"}
      /\ pc = "wait" =>
            \A p \in Spawned : child[p] = "exited" \/ sigterm[p]
      /\ pc \in {"rmtree", "done"} =>
            \A p \in Spawned :
                Reaped(p) /\ returncode[p] /\ child[p] = "exited"
      /\ pc = "rmtree" => dir_exists
      /\ pc = "done" => ~dir_exists

\* C2: once the monitoring loop has seen a child exited, main() is out of the
\* loop (no handle with a known status is polled again there), every child
\* still running is sent a termination request, the directory is removed only
\* after every spawned child was waited on, and main() then returns unless a
\* further Ctrl-C aborts the teardown.
C2_FirstFinisherStopsGroup ==
    /\ [](InTry(pc) => \A p \in Spawned : ~returncode[p])
    /\ []TeardownAfter("finished")
    /\ (exit_cause = "finished") ~>
           (pc = "done" \/ uncaught = "KeyboardInterrupt")

C2_Witness ==
    /\ pc = "done"
    /\ exit_cause = "finished"
    /\ Len(processes) = 2
    /\ Len(term_calls) = 1
    /\ sigterm[term_calls[1]]

\* C3: when main() has terminated, every child that was spawned has been
\* waited on.  Stated for the runs not cut short by a Ctrl-C outside the
\* monitoring loop, the failure of a later spawn included.
C3_NoLeakedChild ==
    (Terminated /\ ~CutShort) => \A p \in Spawned : Reaped(p)

\* C4: whenever some spawned child has not been waited on yet, the config
\* directory exists.
C4_DirOutlivesReaders ==
    (\E p \in Spawned : ~Reaped(p)) => dir_exists

C4_Witness ==
    /\ pc = "wait"
    /\ i = 2
    /\ Reaped(processes[1])
    /\ ~Reaped(processes[2])
    /\ dir_exists

\* C5: no step taken while main() is in the monitoring loop (poll or sleep)
\* lets an exception leave main(); after an interrupt in the loop the
\* teardown is the one of a first-child exit and main() returns with the
\* directory removed unless a further Ctrl-C aborts the teardown.
C5_InterruptIsLoopExit ==
    /\ [][(pc \in {"poll", "sleep"}) => (uncaught' = "none")]_vars
    /\ [][(exit_cause = "none" /\ exit_cause' = "interrupted") =>
            (pc' = "terminate" /\ i' = 1 /\ UNCHANGED procVars)]_vars
    /\ []TeardownAfter("interrupted")
    /\ (exit_cause = "interrupted") ~>
           (pc = "done" \/ uncaught = "KeyboardInterrupt")

C5_Witness ==
    /\ pc = "done"
    /\ exit_cause = "interrupted"
    /\ uncaught = "none"
    /\ Len(processes) = 2
    /\ Len(term_calls) = 2
    /\ \A p \in Spawned : Reaped(p)
    /\ ~dir_exists

\* the notification parse_arguments owes to the k-th missing path
NotFoundNotice(file) ==
    [app |-> "MPVScreensaver", urgency |-> "normal",
     message |-> << "File not found: ", file >>]

\* C6: the counter never exceeds 3, and when parse_arguments returns for a
\* working list with k missing paths, the notifications are exactly the
\* 'File not found' notices, at normal urgency, of the first min(k, 3)
\* missing paths in list order.
C6_NotificationBudget ==
    /\ notifications_sent <= 3
    /\ pc \in {"parse_loop", "parsed"} => Len(notifications) = notifications_sent
    /\ pc = "parsed" =>
         LET missing == Missing(video_list)
             n == Min(Len(missing), 3)
         IN  notifications = [k \in 1 .. n |-> NotFoundNotice(missing[k])]

C6_Witness ==
    /\ pc = "parsed"
    /\ Len(Missing(video_list)) > 3
    /\ Len(notifications) = 3

\* C7: when parse_arguments returns, its result is the subsequence of the
\* working list made of the existing paths, in order, duplicates kept.
C7_OrderPreservingFilter ==
    pc = "parsed" => valid_videos = Existing(video_list)

C7_Witness ==
    /\ pc = "parsed"
    /\ Len(video_list) = 4
    /\ \A k \in 1 .. 3 : video_list[k] \notin exists
    /\ video_list[4] \in exists
    /\ valid_videos = << video_list[4] >>

\* C8: a config directory or a child exists only with a non-empty video
\* list; with an empty one main() returns after exactly one critical
\* 'No videos to play' notification, the last one sent.
C8_EmptyListShortCircuit ==
    /\ (dir_created \/ dir_exists \/ processes # << >> \/ launched # << >>)
          => valid_videos # << >>
    /\ valid_videos = << >> =>
          pc \in {"start", "parse_loop", "parsed", "done", "failed"}
    /\ (pc = "done" /\ valid_videos = << >>) =>
          /\ ~dir_created
          /\ \A d \in DisplayIds : child[d] = "unborn"
          /\ Len(notifications) >= 1
          /\ notifications[Len(notifications)] =
                [app |-> "MPVScreensaver", urgency |-> "critical",
                 message |-> << "No videos to play" >>]
          /\ Cardinality({ k \in DOMAIN notifications :
                 notifications[k].message = << "No videos to play" >> }) = 1

C8_Witness ==
    /\ pc = "done"
    /\ argv_videos # << >>
    /\ valid_videos = << >>
    /\ Len(notifications) = 3

\* C9: a failed spawn does not abort the run when some child was spawned.
C9_PartialSpawnFailureTolerated ==
    (spawn_failed # {} /\ processes # << >>) => uncaught # "OSError"

\* C10: the working list is the CLI list when it is non-empty and VIDEO_PATH
\* otherwise, and the result is that list filtered to the existing paths.
C10_FallbackSelection ==
    pc \in {"parse_loop", "parsed"} =>
      /\ argv_videos # << >> => video_list = argv_videos
      /\ argv_videos = << >> => video_list = VIDEO_PATH
      /\ pc = "parsed" =>
           valid_videos =
              Existing(IF Len(argv_videos) > 0 THEN argv_videos ELSE VIDEO_PATH)

C10_Witness ==
    /\ pc = "parsed"
    /\ argv_videos # << >>
    /\ valid_videos = << >>
    /\ Existing(VIDEO_PATH) # << >>

\* the positions of main() inside monitoring and teardown
Monitoring == {"poll", "sleep"}

Teardown == {"terminate", "send_term", "wait"}

\* C11: with --dry-run no child is ever spawned, no termination request or
\* wait is ever issued, main() never enters the monitoring loop, and once the
\* launch loop is over the output after the directory line is, per display
\* in order, the would-be launch line and the command line.
C11_DryRunSpawnsNothing ==
    dry_run =>
      /\ processes = << >>
      /\ launched = << >>
      /\ \A d \in DisplayIds :
            child[d] = "unborn" /\ ~sigterm[d] /\ waited[d] = 0
      /\ term_calls = << >>
      /\ pc \notin (Monitoring \cup Teardown)
      /\ exit_cause = "none"
      /\ pc \in {"rmtree", "done"} /\ dir_created =>
            /\ Len(stdout) = 1 + 2 * Len(DISPLAYS)
            /\ \A k \in 1 .. Len(DISPLAYS) :
                  /\ stdout[2 * k].kind = "would_launch"
                  /\ stdout[2 * k].display = DISPLAYS[k]
                  /\ stdout[2 * k + 1].kind = "command"
                  /\ stdout[2 * k + 1].cmd =
                        [config_dir |-> "mpvconfig_", fs_screen |-> DISPLAYS[k],
                         videos |-> valid_videos]

C11_Witness ==
    /\ dry_run
    /\ pc = "done"
    /\ dir_created
    /\ ~dir_exists
    /\ Len(DISPLAYS) = 2
    /\ Len(stdout) = 5

\* the settings document contains the directive line
HasDirective(conf, directive) == \E k \in DOMAIN conf : conf[k] = directive

\* C12: adjust_mpv_conf(n) has 'loop=inf' and not 'loop-playlist=inf' iff
\* n = 1, has 'loop-playlist=inf' and not 'loop=inf' iff n # 1 (n = 0
\* included); for n # 1 it is MPV_CONF, and for n = 1 every line other than
\* the loop directive is that of MPV_CONF.
C12_LoopModeRewrite ==
    pc = "adjusted" =>
      LET n == count_arg
          single == HasDirective(adjusted_conf, "loop=inf")
          playlist == HasDirective(adjusted_conf, "loop-playlist=inf")
      IN  /\ (single /\ ~playlist) <=> (n = 1)
          /\ (playlist /\ ~single) <=> (n # 1)
          /\ n # 1 => adjusted_conf = MPV_CONF
          /\ Len(adjusted_conf) = Len(MPV_CONF)
          /\ \A k \in DOMAIN MPV_CONF :
                MPV_CONF[k] # "loop-playlist=inf" => adjusted_conf[k] = MPV_CONF[k]

C12_Witness ==
    /\ pc = "adjusted"
    /\ count_arg = 1
    /\ adjusted_conf # MPV_CONF
    /\ adjusted_conf[2] = "loop=inf"

\* the launch loop of a run that created its directory is over
LaunchOver ==
    dir_created /\ pc \in (Monitoring \cup Teardown \cup {"rmtree", "done"})

\* C13: without --dry-run the k-th child spawned is the one of DISPLAYS[k]
\* and got the config directory, that display and the whole resolved list;
\* after the launch loop there is one child per display; nothing is spawned
\* outside the launch loop.
C13_OneChildPerDisplayInOrder ==
    /\ [](~dry_run =>
            /\ Len(launched) = Len(processes)
            /\ Len(launched) <= Len(DISPLAYS)
            /\ launched # << >> => valid_videos # << >>
            /\ \A k \in 1 .. Len(launched) :
                  /\ processes[k] = DISPLAYS[k]
                  /\ launched[k] =
                        [config_dir |-> "mpvconfig_", fs_screen |-> DISPLAYS[k],
                         videos |-> valid_videos]
            /\ LaunchOver => Len(launched) = Len(DISPLAYS))
    /\ [][(pc # "spawn") =>
            (launched' = launched /\ processes' = processes /\
             \A d \in DisplayIds : child[d] = "unborn" => child'[d] = "unborn")]_vars

C13_Witness ==
    /\ ~dry_run
    /\ pc = "poll"
    /\ DISPLAYS = << 1, 0 >>
    /\ Len(launched) = 2
    /\ Len(valid_videos) = 2

\* C14: no child is waited on twice and after teardown each spawned child
\* was waited on once, in the wait loop; terminate() is called at most once
\* per child, only in teardown and only on a handle whose status was still
\* unknown after its teardown poll; a status once known stays known, and the
\* first finisher's is known when the loop is left, so it is never signalled.
C14_SingleWaitTargetedTerminate ==
    /\ [](\A d \in DisplayIds : waited[d] <= 1)
    /\ []((pc \in {"rmtree", "done"} /\ processes # << >>) =>
             \A p \in Spawned : waited[p] = 1)
    /\ [](\A j, k \in DOMAIN term_calls :
             term_calls[j] = term_calls[k] => j = k)
    /\ [][(waited' # waited) => (pc = "wait")]_vars
    /\ [][(term_calls' # term_calls) =>
            (/\ pc = "send_term"
             /\ ~returncode[processes[i]]
             /\ term_calls' = Append(term_calls, processes[i]))]_vars
    /\ [][\A d \in DisplayIds : returncode[d] => returncode'[d]]_vars
    /\ [][(exit_cause = "none" /\ exit_cause' = "finished") =>
            returncode'[processes[i]]]_vars

C14_Witness ==
    /\ pc = "done"
    /\ exit_cause = "finished"
    /\ Len(processes) = 2
    /\ term_calls = << processes[2] >>
    /\ \A p \in Spawned : waited[p] = 1

\* C15: whatever the interleaving of child exits with main()'s steps, no
\* step of the teardown raises an error, the directory removal is reached
\* only with every spawned child waited on, and it is reached from every
\* teardown state unless a further Ctrl-C aborts the teardown.
C15_TeardownRaceTolerant ==
    /\ [][(pc \in Teardown) => (uncaught' \in {"none", "KeyboardInterrupt"})]_vars
    /\ [][(pc \in Teardown /\ ~CutShort') =>
            (pc' \in (Teardown \cup {"rmtree"}))]_vars
    /\ []((pc = "rmtree" /\ processes # << >>) =>
            \A p \in Spawned : Reaped(p) /\ child[p] = "exited")
    /\ (pc \in Teardown) ~> (pc \in {"rmtree", "done"} \/ CutShort)

\* both children are gone before the teardown poll of either: the second one
\* exited in the same polling interval as the first finisher
C15_WitnessSameInterval ==
    /\ pc = "terminate"
    /\ i = 1
    /\ exit_cause = "finished"
    /\ Len(processes) = 2
    /\ \A p \in Spawned : child[p] = "exited"

\* terminate() was called on a child that had exited on its own after its
\* teardown poll, and main() still returned with the directory removed
C15_Witness ==
    /\ pc = "done"
    /\ ~dir_exists
    /\ Len(processes) = 2
    /\ \E k \in DOMAIN term_calls : ~sigterm[term_calls[k]]
    /\ \A p \in Spawned : Reaped(p)

\* at least one child was spawned and every spawned child is still running
AllRunning == processes # << >> /\ \A p \in Spawned : child[p] = "running"

\* no Ctrl-C has been delivered to main()
NoInterrupt == exit_cause # "interrupted" /\ ~CutShort

\* C16: while every spawned child is running and no interrupt was delivered,
\* no termination request has been sent, the directory exists, main() is in
\* the launch loop or the monitoring loop (or a spawn failure ended it), and
\* a step taken in the monitoring loop that leaves the condition true stays
\* in the monitoring loop.
C16_NoSpuriousTeardown ==
    /\ []((AllRunning /\ NoInterrupt) =>
            /\ term_calls = << >>
            /\ \A d \in DisplayIds : ~sigterm[d] /\ waited[d] = 0
            /\ dir_exists
            /\ pc \in (Monitoring \cup {"spawn", "failed"})
            /\ pc = "failed" => uncaught = "OSError")
    /\ [][(pc \in Monitoring /\ AllRunning' /\ NoInterrupt') =>
            (pc' \in Monitoring)]_vars

C16_Witness ==
    /\ pc = "sleep"
    /\ Len(processes) = 2
    /\ AllRunning
    /\ NoInterrupt

\* the run cannot spawn a child: --dry-run, or no display configured
EmptyGroup == dry_run \/ DISPLAYS = << >>

\* C17: in a run with --dry-run or with DISPLAYS empty, main() is never in
\* the monitoring loop or the teardown, never terminates or waits, and once
\* the directory has been created main() returns with it removed unless a
\* Ctrl-C cuts the run short.
C17_EmptyGroupCleansUp ==
    /\ [](EmptyGroup =>
            /\ pc \notin (Monitoring \cup Teardown)
            /\ processes = << >>
            /\ term_calls = << >>
            /\ \A d \in DisplayIds : waited[d] = 0
            /\ (pc = "done" /\ dir_created) => ~dir_exists)
    /\ [][(EmptyGroup /\ pc = "spawn" /\ i > Len(DISPLAYS) /\ ~CutShort') =>
            (pc' = "rmtree")]_vars
    /\ (EmptyGroup /\ config_dir = "set") ~>
          ((pc = "done" /\ ~dir_exists) \/ CutShort)

C17_Witness ==
    /\ ~dry_run
    /\ DISPLAYS = << >>
    /\ pc = "done"
    /\ dir_created
    /\ ~dir_exists
    /\ uncaught = "none"

\* the directory holds exactly the two documents as first written
DocumentsAsWritten ==
    /\ DOMAIN dir_files = {"mpv.conf", "input.conf"}
    /\ dir_files["input.conf"] = INPUT_CONF
    /\ dir_files["mpv.conf"] =
          [k \in DOMAIN MPV_CONF |->
              IF Len(valid_videos) = 1 /\ MPV_CONF[k] = "loop-playlist=inf"
              THEN "loop=inf" ELSE MPV_CONF[k]]

\* C18: a child exists only after create_temp_config_dir has returned with
\* the directory and both documents in place; from then on the directory
\* holds the documents as first written until it is deleted, and the only
\* step that deletes it is the final rmtree of main().
C18_DirPhaseOrdering ==
    /\ []((launched # << >> \/ \E d \in DisplayIds : child[d] # "unborn")
             => (config_dir = "set" /\ dir_created))
    /\ []((config_dir = "set" /\ dir_exists) => DocumentsAsWritten)
    /\ []((config_dir = "set" /\ ~dir_exists) => pc = "done")
    /\ [][(launched' # launched) => (dir_exists /\ DocumentsAsWritten)]_vars
    /\ [][(config_dir = "set" /\ ~(pc = "rmtree" /\ pc' = "done")) =>
            UNCHANGED << dir_exists, dir_files >>]_vars
    /\ [][(dir_exists /\ ~dir_exists') =>
            (pc = "rmtree" /\ pc' = "done" /\ \A p \in Spawned : Reaped(p))]_vars

C18_Witness ==
    /\ pc = "rmtree"
    /\ Len(processes) = 2
    /\ Len(valid_videos) = 1
    /\ \A p \in Spawned : Reaped(p)
    /\ dir_exists
    /\ dir_files["mpv.conf"][2] = "loop=inf"
====
